---- MODULE Spec2Model ----
(***************************************************************************)
(* A model of src/main.cpp: main() (window bootstrap, function-pointer     *)
(* loading, geometry upload, shader build, render loop, teardown), the     *)
(* resize callback framebuffer_size_callback and processInput.             *)
(*                                                                         *)
(* The program is one thread.  Its state, together with the state of the   *)
(* windowing layer and of the graphics context that the program can        *)
(* observe or change, is one record; every statement of main() is an       *)
(* operator from a state (and the outcome the library reports) to the next *)
(* state.  `run` is the execution under study.  `twin` is a second         *)
(* execution of the same program that PairSpec drives with the same        *)
(* windowing-layer inputs but its own fragment-compile and link outcomes.  *)
(***************************************************************************)
EXTENDS Integers, Sequences, FiniteSets, TLC

VARIABLES run, twin

vars == <<run, twin>>

(* ------------------------------ bounds -------------------------------- *)

\* render-loop iterations the model lets the program start
MaxIter == 2
\* events the windowing layer's queue holds between two polls
MaxQueue == 2

(* --------------------------- program data ----------------------------- *)

\* float verticies[] of main(), in tenths
verticies == <<-5, -5, 0, 5, -5, 0, 0, 5, 0>>

\* the arguments of glClearColor in the render loop, in tenths
ClearColor == <<2, 3, 3, 10>>

\* the clear color of a fresh context (nothing in main() sets it before the loop)
DefaultClearColor == <<0, 0, 0, 0>>

WindowFailMsg == "Failed to create GLFW window"
GladFailMsg == "Failed to initialize GLAD"
VertexFailMsg == "ERROR::SHADER::VERTEX::COMPILATION::FAILED"

\* the statements of the while loop of main()
LoopPcs == {"L141", "L144", "L148", "L150", "L155", "L158"}

\* the framebuffer sizes the resize events of the model carry: a minimised
\* window and a size whose width and height differ
Sizes == {<<0, 0>>, <<1920, 1080>>}

\* what the windowing layer queues until the next glfwPollEvents: Escape
\* pressed or released, a close request, a framebuffer resize
Event ==
    [type : {"press", "release", "close"}, w : {0}, h : {0}]
        \cup {[type |-> "resize", w |-> sz[1], h |-> sz[2]] : sz \in Sizes}

Call(name, args) == [name |-> name, args |-> args]

(* ------------------------------ state --------------------------------- *)

\* the state when main() is entered
InitState ==
    [pc |-> "L28",
     exit |-> <<>>,              \* <<status>> once main() has returned
     out |-> <<>>,               \* std::cout, one entry per message
     calls |-> <<>>,             \* library calls made outside the loop
     frame |-> <<>>,             \* library calls of the current iteration
     \* windowing layer
     window |-> FALSE,           \* window != NULL
     contextCurrent |-> FALSE,
     callbackSet |-> FALSE,
     shouldClose |-> FALSE,
     keyEscape |-> "RELEASE",    \* what glfwGetKey reports for GLFW_KEY_ESCAPE
     queue |-> <<>>,             \* events not yet polled
     terminateCalls |-> 0,
     \* graphics layer
     gladLoaded |-> FALSE,
     loaderHadContext |-> FALSE, \* the context was current when the loader ran
     glUnloaded |-> FALSE,       \* an OpenGL call was made with no loaded pointers
     VBO |-> 0,
     bufferData |-> <<>>,
     vertexShader |-> 0,
     fragmentShader |-> 0,
     shaderProgram |-> 0,
     vertexStatus |-> FALSE,     \* GL_COMPILE_STATUS of vertexShader
     fragmentStatus |-> FALSE,   \* GL_COMPILE_STATUS of fragmentShader
     attached |-> {},
     linkStatus |-> FALSE,       \* GL_LINK_STATUS of shaderProgram
     clearColor |-> DefaultClearColor,
     clearedWith |-> {},         \* the clear colors glClear has used
     viewport |-> <<>>,          \* arguments of the last glViewport call
     \* history
     iters |-> 0,
     clears |-> 0,
     swaps |-> 0,
     polls |-> 0,
     pressPolled |-> FALSE,      \* the last glfwPollEvents delivered an Escape press
     closeSeenAtTop |-> FALSE]   \* glfwWindowShouldClose returned true at L141

(* --------------------------- bookkeeping ------------------------------ *)

\* a library call is recorded in the iteration's frame inside the loop and
\* in calls outside it
Log(s, c) ==
    IF s.pc \in LoopPcs
    THEN [s EXCEPT !.frame = Append(@, c)]
    ELSE [s EXCEPT !.calls = Append(@, c)]

\* an OpenGL call goes through the pointers the loader resolved
GL(s, c) == [Log(s, c) EXCEPT !.glUnloaded = @ \/ ~s.gladLoaded]

Goto(s, label) == [s EXCEPT !.pc = label]

\* return from main()
Return(s, status) == [s EXCEPT !.pc = "done", !.exit = <<status>>]

Cout(s, msg) == [s EXCEPT !.out = Append(@, msg)]

\* glfwTerminate()
glfwTerminate(s) ==
    [Log(s, Call("glfwTerminate", <<>>)) EXCEPT !.terminateCalls = @ + 1]

(* -------------------- main(): bootstrap, lines 28-62 ------------------- *)

\* glfwInit and the three glfwWindowHint calls
InitGLFW(s) ==
    LET s1 == Log(s, Call("glfwInit", <<>>))
        s2 == Log(s1, Call("glfwWindowHint", <<>>))
        s3 == Log(s2, Call("glfwWindowHint", <<>>))
        s4 == Log(s3, Call("glfwWindowHint", <<>>))
    IN  Goto(s4, "L35")

\* GLFWwindow* window = glfwCreateWindow(...)
CreateWindow(s, ok) ==
    Goto([Log(s, Call("glfwCreateWindow", <<>>)) EXCEPT !.window = ok],
         "L40")

\* variant: the NULL branch lacks its return
CheckWindow_NoReturn(s) ==
    IF ~s.window
    THEN Goto(glfwTerminate(Cout(s, WindowFailMsg)), "L48")
    ELSE Goto(s, "L48")

\* if (window == NULL) { print; glfwTerminate(); return -1; }
CheckWindow(s) ==
    IF ~s.window
    THEN Return(glfwTerminate(Cout(s, WindowFailMsg)), -1)
    ELSE Goto(s, "L48")

\* glfwMakeContextCurrent(window)
MakeContextCurrent(s) ==
    Goto([Log(s, Call("glfwMakeContextCurrent", <<>>))
             EXCEPT !.contextCurrent = TRUE], "L51")

\* glfwSetFramebufferSizeCallback(window, framebuffer_size_callback)
SetFramebufferSizeCallback(s) ==
    Goto([Log(s, Call("glfwSetFramebufferSizeCallback", <<>>))
             EXCEPT !.callbackSet = TRUE], "L58")

\* variant: the failure branch releases the windowing layer before returning
LoadGL_Terminates(s, ok) ==
    LET s1 == [Log(s, Call("gladLoadGLLoader", <<>>))
                  EXCEPT !.gladLoaded = ok,
                         !.loaderHadContext = s.contextCurrent]
    IN  IF ~ok
        THEN Return(glfwTerminate(Cout(s1, GladFailMsg)), -1)
        ELSE Goto(s1, "L73")

\* variant: the failure branch lacks its return
LoadGL_NoReturn(s, ok) ==
    LET s1 == [Log(s, Call("gladLoadGLLoader", <<>>))
                  EXCEPT !.gladLoaded = ok,
                         !.loaderHadContext = s.contextCurrent]
    IN  IF ~ok
        THEN Goto(Cout(s1, GladFailMsg), "L73")
        ELSE Goto(s1, "L73")

\* if (!gladLoadGLLoader(...)) { print; return -1; }
LoadGL(s, ok) ==
    LET s1 == [Log(s, Call("gladLoadGLLoader", <<>>))
                  EXCEPT !.gladLoaded = ok,
                         !.loaderHadContext = s.contextCurrent]
    IN  IF ~ok
        THEN Return(Cout(s1, GladFailMsg), -1)
        ELSE Goto(s1, "L73")

(* ------------- main(): geometry and shaders, lines 64-132 -------------- *)

\* glGenBuffers, glBindBuffer, glBufferData
UploadGeometry(s) ==
    LET s1 == [GL(s, Call("glGenBuffers", <<>>)) EXCEPT !.VBO = 1]
        s2 == GL(s1, Call("glBindBuffer", <<>>))
        s3 == [GL(s2, Call("glBufferData", <<>>)) EXCEPT !.bufferData = verticies]
    IN  Goto(s3, "L100")

\* glCreateShader(GL_VERTEX_SHADER), glShaderSource, glCompileShader
CompileVertexShader(s, ok) ==
    LET s1 == [GL(s, Call("glCreateShader", <<>>)) EXCEPT !.vertexShader = 1]
        s2 == GL(s1, Call("glShaderSource", <<s1.vertexShader>>))
        s3 == [GL(s2, Call("glCompileShader", <<s1.vertexShader>>))
                  EXCEPT !.vertexStatus = ok]
    IN  Goto(s3, "L109")

\* variant: a failed vertex compile ends the program like the other failures
CheckVertexShader_Fatal(s) ==
    LET s1 == GL(s, Call("glGetShaderiv", <<s.vertexShader>>))
        success == s.vertexStatus
    IN  IF ~success
        THEN Return(Cout(GL(s1, Call("glGetShaderInfoLog", <<s.vertexShader>>)),
                         VertexFailMsg), -1)
        ELSE Goto(s1, "L119")

\* glGetShaderiv(vertexShader, GL_COMPILE_STATUS, &success); if (!success) ...
CheckVertexShader(s) ==
    LET s1 == GL(s, Call("glGetShaderiv", <<s.vertexShader>>))
        success == s.vertexStatus
    IN  IF ~success
        THEN Goto(Cout(GL(s1, Call("glGetShaderInfoLog", <<s.vertexShader>>)),
                       VertexFailMsg), "L119")
        ELSE Goto(s1, "L119")

\* variant: the fragment shader's compile status is checked like the vertex
\* shader's
CompileFragmentShader_Checked(s, ok) ==
    LET s1 == [GL(s, Call("glCreateShader", <<>>)) EXCEPT !.fragmentShader = 2]
        s2 == GL(s1, Call("glShaderSource", <<s1.fragmentShader>>))
        s3 == [GL(s2, Call("glCompileShader", <<s1.fragmentShader>>))
                  EXCEPT !.fragmentStatus = ok]
        s4 == GL(s3, Call("glGetShaderiv", <<s1.fragmentShader>>))
    IN  IF ~ok
        THEN Goto(Cout(GL(s4, Call("glGetShaderInfoLog", <<s1.fragmentShader>>)),
                       "ERROR::SHADER::FRAGMENT::COMPILATION::FAILED"), "L127")
        ELSE Goto(s4, "L127")

\* glCreateShader(GL_FRAGMENT_SHADER), glShaderSource, glCompileShader
CompileFragmentShader(s, ok) ==
    LET s1 == [GL(s, Call("glCreateShader", <<>>)) EXCEPT !.fragmentShader = 2]
        s2 == GL(s1, Call("glShaderSource", <<s1.fragmentShader>>))
        s3 == [GL(s2, Call("glCompileShader", <<s1.fragmentShader>>))
                  EXCEPT !.fragmentStatus = ok]
    IN  Goto(s3, "L127")

\* shaderProgram = glCreateProgram()
CreateProgram(s) ==
    Goto([GL(s, Call("glCreateProgram", <<>>)) EXCEPT !.shaderProgram = 3], "L130")

\* glAttachShader twice
AttachShaders(s) ==
    LET s1 == [GL(s, Call("glAttachShader", <<s.shaderProgram, s.vertexShader>>))
                  EXCEPT !.attached = @ \cup {s.vertexShader}]
        s2 == [GL(s1, Call("glAttachShader", <<s.shaderProgram, s.fragmentShader>>))
                  EXCEPT !.attached = @ \cup {s.fragmentShader}]
    IN  Goto(s2, "L132")

\* glLinkProgram(shaderProgram): a program links only if every attached
\* shader compiled
LinkProgram(s, ok) ==
    Goto([GL(s, Call("glLinkProgram", <<s.shaderProgram>>))
             EXCEPT !.linkStatus = ok /\ s.vertexStatus /\ s.fragmentStatus],
         "L141")

(* ----------------- callbacks and the windowing layer ------------------- *)

\* variant: a zero height is raised to one before the call
framebuffer_size_callback_Clamped(s, width, height) ==
    LET h == IF height = 0 THEN 1 ELSE height
    IN  [GL(s, Call("glViewport", <<0, 0, width, h>>))
            EXCEPT !.viewport = <<0, 0, width, h>>]

\* void framebuffer_size_callback(GLFWwindow*, int width, int height)
framebuffer_size_callback(s, width, height) ==
    [GL(s, Call("glViewport", <<0, 0, width, height>>))
        EXCEPT !.viewport = <<0, 0, width, height>>]

\* void processInput(GLFWwindow* window): glfwGetKey reports the key's last
\* delivered state
processInput(s) ==
    LET s1 == Log(s, Call("glfwGetKey", <<>>))
    IN  IF s1.keyEscape = "PRESS"
        THEN [Log(s1, Call("glfwSetWindowShouldClose", <<>>))
                 EXCEPT !.shouldClose = TRUE]
        ELSE s1

\* what the windowing layer does with one event when it is polled
HandleEvent(s, ev) ==
    CASE ev.type = "press" -> [s EXCEPT !.keyEscape = "PRESS"]
      [] ev.type = "release" -> [s EXCEPT !.keyEscape = "RELEASE"]
      [] ev.type = "close" -> [s EXCEPT !.shouldClose = TRUE]
      [] ev.type = "resize" ->
            IF s.callbackSet THEN framebuffer_size_callback(s, ev.w, ev.h) ELSE s

RECURSIVE Dispatch(_, _)
\* the pending events are handled in the order they arrived
Dispatch(s, q) ==
    IF q = <<>> THEN s ELSE Dispatch(HandleEvent(s, Head(q)), Tail(q))

\* the windowing layer queues an event for the window
Enqueue(s, ev) == [s EXCEPT !.queue = Append(@, ev)]

\* a window exists, main() has not returned and the queue has room
CanEnqueue(s) == s.window /\ s.exit = <<>> /\ Len(s.queue) < MaxQueue

(* ------------- main(): render loop and exit, lines 141-168 ------------- *)

\* while (!glfwWindowShouldClose(window))
LoopTest(s) ==
    IF s.shouldClose
    THEN Goto([s EXCEPT !.closeSeenAtTop = TRUE], "L166")
    ELSE Goto([s EXCEPT !.iters = @ + 1, !.frame = <<>>], "L144")

\* processInput(window);
CallProcessInput(s) ==
    Goto(processInput(Log(s, Call("processInput", <<>>))), "L148")

\* glClearColor(0.2f, 0.3f, 0.3f, 1.0f);
SetClearColor(s) ==
    Goto([GL(s, Call("glClearColor", ClearColor)) EXCEPT !.clearColor = ClearColor],
         "L150")

\* variant: the frame is drawn after the clear
Clear_ThenDraw(s) ==
    LET s1 == [GL(s, Call("glClear", <<>>))
                  EXCEPT !.clears = @ + 1, !.clearedWith = @ \cup {s.clearColor}]
        s2 == GL(s1, Call("glUseProgram", <<s.shaderProgram>>))
        s3 == GL(s2, Call("glDrawArrays", <<>>))
    IN  Goto(s3, "L155")

\* glClear(GL_COLOR_BUFFER_BIT);
Clear(s) ==
    Goto([GL(s, Call("glClear", <<>>))
             EXCEPT !.clears = @ + 1, !.clearedWith = @ \cup {s.clearColor}],
         "L155")

\* variant: the swap is skipped once the close flag is set
SwapBuffers_OnlyWhenOpen(s) ==
    IF s.shouldClose
    THEN Goto(s, "L158")
    ELSE Goto([Log(s, Call("glfwSwapBuffers", <<>>)) EXCEPT !.swaps = @ + 1], "L158")

\* glfwSwapBuffers(window);
SwapBuffers(s) ==
    Goto([Log(s, Call("glfwSwapBuffers", <<>>)) EXCEPT !.swaps = @ + 1], "L158")

\* glfwPollEvents(); drains the queue, running the callbacks
PollEvents(s) ==
    LET s1 == [Log(s, Call("glfwPollEvents", <<>>))
                  EXCEPT !.polls = @ + 1, !.queue = <<>>,
                         !.pressPolled = \E i \in 1..Len(s.queue) :
                                             s.queue[i].type = "press"]
    IN  Goto(Dispatch(s1, s.queue), "L141")

\* variant: the normal exit returns without glfwTerminate
Exit_NoTerminate(s) == Return(s, 0)

\* glfwTerminate(); return 0;
Exit(s) == Return(glfwTerminate(s), 0)

\* one statement of main(); ok is what the library reports to a statement
\* that can fail
Step(s, ok) ==
    CASE s.pc = "L28" -> InitGLFW(s)
      [] s.pc = "L35" -> CreateWindow(s, ok)
      [] s.pc = "L40" -> CheckWindow(s)
      [] s.pc = "L48" -> MakeContextCurrent(s)
      [] s.pc = "L51" -> SetFramebufferSizeCallback(s)
      [] s.pc = "L58" -> LoadGL(s, ok)
      [] s.pc = "L73" -> UploadGeometry(s)
      [] s.pc = "L100" -> CompileVertexShader(s, ok)
      [] s.pc = "L109" -> CheckVertexShader(s)
      [] s.pc = "L119" -> CompileFragmentShader(s, ok)
      [] s.pc = "L127" -> CreateProgram(s)
      [] s.pc = "L130" -> AttachShaders(s)
      [] s.pc = "L132" -> LinkProgram(s, ok)
      [] s.pc = "L141" -> LoopTest(s)
      [] s.pc = "L144" -> CallProcessInput(s)
      [] s.pc = "L148" -> SetClearColor(s)
      [] s.pc = "L150" -> Clear(s)
      [] s.pc = "L155" -> SwapBuffers(s)
      [] s.pc = "L158" -> PollEvents(s)
      [] s.pc = "L166" -> Exit(s)
      [] OTHER -> s

\* main() has a statement to run; the model stops a run that would start
\* iteration MaxIter + 1
CanStep(s) ==
    /\ s.pc # "done"
    /\ (s.pc = "L141" /\ ~s.shouldClose) => s.iters < MaxIter

(* --------------------------- specification ---------------------------- *)

Init == run = InitState /\ twin = InitState

DoInitGLFW ==
    /\ run.pc = "L28"
    /\ run' = InitGLFW(run)
    /\ UNCHANGED twin

DoCreateWindow ==
    /\ run.pc = "L35"
    /\ \E ok \in BOOLEAN : run' = CreateWindow(run, ok)
    /\ UNCHANGED twin

DoCheckWindow ==
    /\ run.pc = "L40"
    /\ run' = CheckWindow(run)
    /\ UNCHANGED twin

DoMakeContextCurrent ==
    /\ run.pc = "L48"
    /\ run' = MakeContextCurrent(run)
    /\ UNCHANGED twin

DoSetFramebufferSizeCallback ==
    /\ run.pc = "L51"
    /\ run' = SetFramebufferSizeCallback(run)
    /\ UNCHANGED twin

DoLoadGL ==
    /\ run.pc = "L58"
    /\ \E ok \in BOOLEAN : run' = LoadGL(run, ok)
    /\ UNCHANGED twin

DoUploadGeometry ==
    /\ run.pc = "L73"
    /\ run' = UploadGeometry(run)
    /\ UNCHANGED twin

DoCompileVertexShader ==
    /\ run.pc = "L100"
    /\ \E ok \in BOOLEAN : run' = CompileVertexShader(run, ok)
    /\ UNCHANGED twin

DoCheckVertexShader ==
    /\ run.pc = "L109"
    /\ run' = CheckVertexShader(run)
    /\ UNCHANGED twin

DoCompileFragmentShader ==
    /\ run.pc = "L119"
    /\ \E ok \in BOOLEAN : run' = CompileFragmentShader(run, ok)
    /\ UNCHANGED twin

DoCreateProgram ==
    /\ run.pc = "L127"
    /\ run' = CreateProgram(run)
    /\ UNCHANGED twin

DoAttachShaders ==
    /\ run.pc = "L130"
    /\ run' = AttachShaders(run)
    /\ UNCHANGED twin

DoLinkProgram ==
    /\ run.pc = "L132"
    /\ \E ok \in BOOLEAN : run' = LinkProgram(run, ok)
    /\ UNCHANGED twin

DoLoopTest ==
    /\ run.pc = "L141"
    /\ CanStep(run)
    /\ run' = LoopTest(run)
    /\ UNCHANGED twin

DoProcessInput ==
    /\ run.pc = "L144"
    /\ run' = CallProcessInput(run)
    /\ UNCHANGED twin

DoSetClearColor ==
    /\ run.pc = "L148"
    /\ run' = SetClearColor(run)
    /\ UNCHANGED twin

DoClear ==
    /\ run.pc = "L150"
    /\ run' = Clear(run)
    /\ UNCHANGED twin

DoSwapBuffers ==
    /\ run.pc = "L155"
    /\ run' = SwapBuffers(run)
    /\ UNCHANGED twin

DoPollEvents ==
    /\ run.pc = "L158"
    /\ run' = PollEvents(run)
    /\ UNCHANGED twin

DoExit ==
    /\ run.pc = "L166"
    /\ run' = Exit(run)
    /\ UNCHANGED twin

\* the windowing layer queues an event
Deliver ==
    /\ CanEnqueue(run)
    /\ \E ev \in Event : run' = Enqueue(run, ev)
    /\ UNCHANGED twin

\* the thread of main()
Main ==
    \/ DoInitGLFW \/ DoCreateWindow \/ DoCheckWindow \/ DoMakeContextCurrent
    \/ DoSetFramebufferSizeCallback \/ DoLoadGL \/ DoUploadGeometry
    \/ DoCompileVertexShader \/ DoCheckVertexShader \/ DoCompileFragmentShader
    \/ DoCreateProgram \/ DoAttachShaders \/ DoLinkProgram \/ DoLoopTest
    \/ DoProcessInput \/ DoSetClearColor \/ DoClear \/ DoSwapBuffers
    \/ DoPollEvents \/ DoExit

Next == Main \/ Deliver

Spec == Init /\ [][Next]_vars

\* the thread of main() keeps running while it has a statement to run
FairSpec == Spec /\ WF_vars(Main)

(* Two executions of the program that receive the same events at the same  *)
(* statements and the same window, loader and vertex-compile outcomes; the *)
(* outcomes of the fragment compile (L119) and of the link (L132) are      *)
(* chosen for each execution on its own.                                   *)

PairStep ==
    /\ CanStep(run) \/ CanStep(twin)
    /\ \E ok1, ok2 \in BOOLEAN :
          /\ ({run.pc, twin.pc} \cap {"L119", "L132"} = {}) => ok1 = ok2
          /\ run' = IF CanStep(run) THEN Step(run, ok1) ELSE run
          /\ twin' = IF CanStep(twin) THEN Step(twin, ok2) ELSE twin

PairDeliver ==
    /\ CanEnqueue(run) \/ CanEnqueue(twin)
    /\ \E ev \in Event :
          /\ run' = IF CanEnqueue(run) THEN Enqueue(run, ev) ELSE run
          /\ twin' = IF CanEnqueue(twin) THEN Enqueue(twin, ev) ELSE twin

PairNext == PairStep \/ PairDeliver

PairSpec == Init /\ [][PairNext]_vars

(* ------------------------------ helpers -------------------------------- *)

Has(seq, name) == \E i \in 1..Len(seq) : seq[i].name = name

Count(seq, x) == Cardinality({i \in 1..Len(seq) : seq[i] = x})

NameSeq(seq) == [i \in 1..Len(seq) |-> seq[i].name]

\* the OpenGL entry points (everything the loader resolves)
GLNames ==
    {"glGenBuffers", "glBindBuffer", "glBufferData", "glCreateShader",
     "glShaderSource", "glCompileShader", "glGetShaderiv", "glGetShaderInfoLog",
     "glCreateProgram", "glAttachShader", "glLinkProgram", "glClearColor",
     "glClear", "glViewport", "glUseProgram", "glDrawArrays", "glDrawElements"}

\* the calls the body of the while loop makes itself, in order
LoopBody ==
    <<"processInput", "glClearColor", "glClear", "glfwSwapBuffers", "glfwPollEvents">>

\* the calls of the current iteration that the loop body makes itself
BodyCalls(s) ==
    NameSeq(SelectSeq(s.frame, LAMBDA c : c.name \in {LoopBody[i] : i \in 1..5}))

\* how many statements of the current iteration have run
DoneInFrame(s) ==
    CASE s.pc = "L144" -> 0
      [] s.pc = "L148" -> 1
      [] s.pc = "L150" -> 2
      [] s.pc = "L155" -> 3
      [] s.pc = "L158" -> 4
      [] OTHER -> IF s.iters = 0 THEN 0 ELSE 5

\* the arguments of the glViewport calls in a sequence of calls
ViewportCalls(seq) ==
    LET vp == SelectSeq(seq, LAMBDA c : c.name = "glViewport")
    IN  [i \in 1..Len(vp) |-> vp[i].args]

\* the viewports the resize events of a queue ask for
ResizeArgs(q) ==
    LET rs == SelectSeq(q, LAMBDA ev : ev.type = "resize")
    IN  [i \in 1..Len(rs) |-> <<0, 0, rs[i].w, rs[i].h>>]

\* the calls main() makes up to and including glfwCreateWindow
BootCalls ==
    <<"glfwInit", "glfwWindowHint", "glfwWindowHint", "glfwWindowHint",
      "glfwCreateWindow">>

\* glfwCreateWindow has returned
Created(s) == s.pc \notin {"L28", "L35"}

\* gladLoadGLLoader has returned false
GladFailed(s) == Has(s.calls, "gladLoadGLLoader") /\ ~s.gladLoaded

\* the compile-status check of the vertex shader has run
VertexChecked(s) == Has(s.calls, "glGetShaderiv")

(* ------------------------------- claims -------------------------------- *)

\* C1: when glfwCreateWindow returns NULL the program prints the
\* creation-failure message and returns -1; no context is made current, no
\* OpenGL call is made, and the loop is never entered (no clear, swap, poll).
C1_WindowFailure ==
    (Created(run) /\ ~run.window) =>
        /\ run.pc \in {"L40", "done"}
        /\ ~run.contextCurrent
        /\ \A i \in 1..Len(run.calls) : run.calls[i].name \notin GLNames
        /\ ~Has(run.calls, "glfwMakeContextCurrent")
        /\ run.frame = <<>>
        /\ run.iters = 0 /\ run.clears = 0 /\ run.swaps = 0 /\ run.polls = 0
        /\ run.pc = "done" =>
              /\ run.out = <<WindowFailMsg>>
              /\ run.exit = <<-1>>
              /\ NameSeq(run.calls) = BootCalls \o <<"glfwTerminate">>

C1_Witness == run.pc = "done" /\ ~run.window /\ run.exit = <<-1>>

\* C2: once glfwPollEvents has delivered an Escape press, the processInput
\* that follows leaves the close flag set (for every way presses and
\* releases fall between polls).
C2_EscapeAlwaysCloses ==
    (run.pc = "L148" /\ run.pressPolled) => run.shouldClose

\* C3: a vertex shader whose compile status is false yields the tagged
\* message exactly once and the program goes on: it compiles the fragment
\* shader, creates, attaches and links the program and reaches the loop;
\* a compile status of true yields no such message.
C3_VertexReportSafety ==
    /\ Count(run.out, VertexFailMsg) =
          IF VertexChecked(run) /\ ~run.vertexStatus THEN 1 ELSE 0
    /\ (VertexChecked(run) /\ ~run.vertexStatus) =>
          /\ run.exit \in {<<>>, <<0>>}
          /\ run.pc = "done" => run.closeSeenAtTop
          /\ (run.pc \in LoopPcs) =>
                /\ Count(run.calls, Call("glCompileShader", <<run.fragmentShader>>)) = 1
                /\ run.fragmentShader # 0 /\ run.shaderProgram # 0
                /\ run.attached = {run.vertexShader, run.fragmentShader}
                /\ Has(run.calls, "glLinkProgram")

C3_VertexReport ==
    /\ []C3_VertexReportSafety
    /\ (run.pc = "L119" /\ ~run.vertexStatus) ~> (run.pc = "L141" /\ run.iters = 0)

C3_Witness ==
    /\ run.pc = "L150" /\ ~run.vertexStatus
    /\ run.out = <<VertexFailMsg>>

\* C4: when gladLoadGLLoader fails the program prints the GLAD message and
\* returns -1 without calling glfwTerminate (which the window-failure path
\* and the normal exit both call once); no buffer, shader or loop statement
\* runs.
C4_GladFailure ==
    /\ GladFailed(run) =>
          /\ run.pc = "done"
          /\ run.out = <<GladFailMsg>>
          /\ run.exit = <<-1>>
          /\ run.terminateCalls = 0
          /\ NameSeq(run.calls) =
                BootCalls \o <<"glfwMakeContextCurrent",
                               "glfwSetFramebufferSizeCallback", "gladLoadGLLoader">>
          /\ run.VBO = 0 /\ run.vertexShader = 0 /\ run.fragmentShader = 0
          /\ run.shaderProgram = 0
          /\ run.frame = <<>> /\ run.iters = 0
    /\ (run.pc = "done" /\ ~GladFailed(run)) => run.terminateCalls = 1

C4_Witness ==
    /\ run.pc = "done" /\ run.window /\ GladFailed(run)
    /\ Len(run.queue) > 0

\* C5: every iteration runs processInput, glClearColor, glClear,
\* glfwSwapBuffers, glfwPollEvents in this order, once each; between
\* iterations clears = swaps = polls = iterations started, and every clear
\* used the color (0.2, 0.3, 0.3, 1.0).
C5_FrameOrder ==
    /\ BodyCalls(run) = SubSeq(LoopBody, 1, DoneInFrame(run))
    /\ run.clears = run.iters - (IF run.pc \in {"L144", "L148", "L150"} THEN 1 ELSE 0)
    /\ run.swaps =
          run.iters - (IF run.pc \in {"L144", "L148", "L150", "L155"} THEN 1 ELSE 0)
    /\ run.polls =
          run.iters
             - (IF run.pc \in {"L144", "L148", "L150", "L155", "L158"} THEN 1 ELSE 0)
    /\ run.clearedWith \subseteq {ClearColor}
    /\ \A i \in 1..Len(run.frame) :
          run.frame[i].name = "glClearColor" => run.frame[i].args = ClearColor

C5_Witness ==
    /\ run.pc = "L141" /\ run.iters = 2
    /\ run.clears = 2 /\ run.swaps = 2
    /\ run.clearedWith = {ClearColor}

\* C6: a poll calls glViewport(0, 0, W, H) once for each resize event it
\* delivers, in order, with the event's own W and H; a poll that delivers
\* only resize events changes nothing else of the program's state; no other
\* statement changes the viewport.
C6_ResizeStep ==
    /\ (run.pc = "L158" /\ run'.pc = "L141") =>
          /\ ViewportCalls(run'.frame) = ResizeArgs(run.queue)
          /\ run'.viewport =
                IF ResizeArgs(run.queue) = <<>> THEN run.viewport
                ELSE ResizeArgs(run.queue)[Len(ResizeArgs(run.queue))]
          /\ (\A i \in 1..Len(run.queue) : run.queue[i].type = "resize") =>
                /\ run'.shouldClose = run.shouldClose
                /\ run'.keyEscape = run.keyEscape
                /\ run'.clearColor = run.clearColor
                /\ <<run'.VBO, run'.vertexShader, run'.fragmentShader, run'.shaderProgram>>
                      = <<run.VBO, run.vertexShader, run.fragmentShader, run.shaderProgram>>
                /\ <<run'.vertexStatus, run'.fragmentStatus, run'.linkStatus, run'.out>>
                      = <<run.vertexStatus, run.fragmentStatus, run.linkStatus, run.out>>
    /\ (run.pc # "L158") =>
          /\ run'.viewport = run.viewport
          /\ ~Has(run'.calls, "glViewport")
          /\ (run'.pc # "L144") => ViewportCalls(run'.frame) = ViewportCalls(run.frame)

C6_ResizeSetsViewport == [][C6_ResizeStep]_vars

C6_Witness ==
    /\ run.pc = "L141"
    /\ ViewportCalls(run.frame) = <<<<0, 0, 1920, 1080>>, <<0, 0, 0, 0>>>>
    /\ run.viewport = <<0, 0, 0, 0>>

\* C7: the loader runs with the context current, and every OpenGL call,
\* the glViewport of the resize callback included, is made after the
\* loader has succeeded.
C7_LoaderBeforeGL ==
    /\ ~run.glUnloaded
    /\ Has(run.calls, "gladLoadGLLoader") => run.loaderHadContext
    /\ (\E i \in 1..Len(run.calls) : run.calls[i].name \in GLNames) => run.gladLoaded
    /\ (\E i \in 1..Len(run.frame) : run.frame[i].name \in GLNames) => run.gladLoaded
    /\ run.viewport # <<>> => run.gladLoaded

C7_Witness ==
    /\ run.gladLoaded /\ run.loaderHadContext
    /\ run.viewport # <<>>
    /\ Has(run.frame, "glViewport")

\* C8: once glfwWindowShouldClose is seen true at the top of the loop the
\* program leaves the loop, calls glfwTerminate once and returns 0; 0 is
\* returned on no other path; and once the close flag is set the program
\* terminates.
C8_ExitSafety ==
    /\ run.closeSeenAtTop => run.pc \in {"L166", "done"}
    /\ (run.closeSeenAtTop /\ run.pc = "done") =>
          /\ run.exit = <<0>>
          /\ run.terminateCalls = 1
          /\ Count(run.calls, Call("glfwTerminate", <<>>)) = 1
    /\ run.exit = <<0>> => (run.closeSeenAtTop /\ run.shouldClose)
    /\ run.pc = "L166" => (run.closeSeenAtTop /\ run.terminateCalls = 0)

C8_CloseTerminates ==
    /\ []C8_ExitSafety
    /\ run.shouldClose ~> (run.pc = "done" /\ run.exit = <<0>>)

C8_Witness ==
    /\ run.pc = "done" /\ run.exit = <<0>>
    /\ run.closeSeenAtTop /\ run.terminateCalls = 1

\* what an execution shows: everything but the two statuses nobody reads
Observable(s) ==
    [s EXCEPT !.fragmentStatus = FALSE, !.linkStatus = FALSE]

C10_NeverDraws ==
    /\ \A i \in 1..Len(run.calls) :
          run.calls[i].name \notin {"glUseProgram", "glDrawArrays", "glDrawElements"}
    /\ \A i \in 1..Len(run.frame) :
          run.frame[i].name \in GLNames =>
              run.frame[i].name \in {"glClearColor", "glClear", "glViewport"}

C10_Witness ==
    /\ run.linkStatus /\ run.swaps >= 2
    /\ run.pc = "done" /\ run.exit = <<0>>

====
